---- MODULE Spec2Model ----
(***************************************************************************)
(* A model of kraken_abundance_pipeline.py: the filename codec             *)
(* (clean_sample_name), the two domain segmenters (process_output_report,  *)
(* extract_domains_from_kraken_report) and the rank aggregator             *)
(* (aggregate_kraken_results, generate_unfiltered_merged_tsv,              *)
(* process_all_ranks).                                                     *)
(*                                                                         *)
(* Strings are sequences of atoms.  An atom is a character ("_", "1", " ") *)
(* or a word that the model never splits ("report.txt", "Bacteria").  No   *)
(* atom is a concatenation of other atoms, and in file names no atom but   *)
(* "_" contains an underscore, so Python's str.replace, str.split,         *)
(* str.join, str.endswith and string concatenation act on the atom         *)
(* sequence as they act on the text.  A report line is the list of fields  *)
(* that                                                                    *)
(* line.strip().split("\t") yields for it.                                 *)
(***************************************************************************)
EXTENDS Integers, Sequences, FiniteSets, TLC

VARIABLES
  dir,        \* the directory: file name -> content (a list of lines, or a table)
  metadata,   \* the metadata table the call is given, or NoMetadata
  phase,      \* "idle" before the call, "done" after it
  call,       \* the call that was made: its name, its arguments, the directory before it
  outcome,    \* what the immediate caller gets: a returned value or an exception
  raised,     \* history: an exception was raised inside the call
  domains,    \* the mapping returned by extract_domains_from_kraken_report
  written,    \* history: the files save_domain_data wrote, in order of first write
  trace,      \* history of the aggregation scan: the rows it parsed, the rows it stored
  rankTables, \* process_all_ranks: the merged table produced in the iteration of each rank
  fname,      \* clean_sample_name: the file name given
  cleaned,    \* clean_sample_name(fname)
  recleaned,  \* clean_sample_name(cleaned)
  pcName,     \* position of the clean_sample_name run
  pipe        \* history of a pipeline run: the domain blocks written, the steps taken

vars == <<dir, metadata, phase, call, outcome, raised, domains, written, trace,
          rankTables, fname, cleaned, recleaned, pcName, pipe>>

(***************************************************************************)
(* Bounds                                                                  *)
(***************************************************************************)
MaxNameLen == 4   \* atoms in a file name given to clean_sample_name
MaxSegLines == 3  \* lines in a report given to a segmenter
MaxAggLines == 2  \* lines in the report files of an aggregated directory, in total
MaxRankLines == 1 \* the same, in a directory given to process_all_ranks

(***************************************************************************)
(* Strings                                                                 *)
(***************************************************************************)
US == "_"
None == <<"None">>  \* Python's None, where a string is expected
NaN == <<"NaN">>    \* the float nan pandas puts in a missing cell
EmptyDir == [f \in {} |-> <<>>]

\* neither metadata_file nor sample_id_df was given
NoMetadata == [given |-> FALSE, columns |-> <<>>, rows |-> <<>>]
NoCall == [name |-> "none"]
NoOutcome == [kind |-> "none", value |-> None]
NoTrace == [visited |-> {}, stored |-> {}]
NoPipe == [emitted |-> {}, steps |-> 0]

\* bool(x) of a string, None or nan: nan is true
Truthy(x) == x # None /\ x # <<>>

\* F applied to the value of x, with x evaluated once
Bind(x, F(_)) == CHOOSE out \in {F(v) : v \in {x}} : TRUE

RECURSIVE SeqsUpTo(_, _)
SeqsUpTo(S, n) ==
  IF n = 0 THEN {<<>>}
  ELSE LET shorter == SeqsUpTo(S, n - 1)
       IN shorter \cup {Append(s, x) : s \in {t \in shorter : Len(t) = n - 1}, x \in S}

RECURSIVE Flatten(_)
Flatten(ss) == IF ss = <<>> THEN <<>> ELSE Head(ss) \o Flatten(Tail(ss))

StartsWith(s, pat) == Len(s) >= Len(pat) /\ SubSeq(s, 1, Len(pat)) = pat

EndsWith(s, pat) ==
  Len(s) >= Len(pat) /\ SubSeq(s, Len(s) - Len(pat) + 1, Len(s)) = pat

\* str.replace(pat, ""): the non-overlapping occurrences, found left to right
RECURSIVE ReplaceAll(_, _)
ReplaceAll(s, pat) ==
  IF s = <<>> THEN <<>>
  ELSE IF StartsWith(s, pat) THEN ReplaceAll(SubSeq(s, Len(pat) + 1, Len(s)), pat)
  ELSE <<Head(s)>> \o ReplaceAll(Tail(s), pat)

\* str.split("_"): one more token than there are underscores; a token may be empty
RECURSIVE Split(_)
Split(s) ==
  IF \A i \in 1..Len(s) : s[i] # US THEN <<s>>
  ELSE LET k == CHOOSE i \in 1..Len(s) : s[i] = US /\ \A j \in 1..(i - 1) : s[j] # US
       IN <<SubSeq(s, 1, k - 1)>> \o Split(SubSeq(s, k + 1, Len(s)))

\* "_".join(parts)
RECURSIVE Join(_)
Join(parts) ==
  IF parts = <<>> THEN <<>>
  ELSE IF Len(parts) = 1 THEN parts[1]
  ELSE parts[1] \o <<US>> \o Join(Tail(parts))

RECURSIVE SelectNotIn(_, _)
SelectNotIn(parts, S) ==
  IF parts = <<>> THEN <<>>
  ELSE IF Head(parts) \in S THEN SelectNotIn(Tail(parts), S)
  ELSE <<Head(parts)>> \o SelectNotIn(Tail(parts), S)

ReportSuffix == <<US, "report.txt">>

domain_labels == {<<"Viruses">>, <<"Eukaryota">>, <<"Bacteria">>, <<"Archaea">>}

clean_sample_name(file_name, labels) ==
  LET name == ReplaceAll(file_name, ReportSuffix)
      parts == Split(name)
      cleaned_parts == SelectNotIn(parts, labels)
  IN Join(cleaned_parts)

(***************************************************************************)
(* The clean_sample_name run: clean a name, then clean the result          *)
(***************************************************************************)
NameAtoms == {US, "report.txt", "Bacteria", "a"}

FileNames == SeqsUpTo(NameAtoms, MaxNameLen)

Idle ==
  /\ dir = EmptyDir /\ metadata = NoMetadata /\ phase = "idle" /\ call = NoCall
  /\ outcome = NoOutcome /\ raised = FALSE /\ domains = <<>> /\ written = <<>>
  /\ trace = NoTrace /\ rankTables = EmptyDir /\ pipe = NoPipe

NameIdle ==
  /\ fname = <<>> /\ cleaned = <<>> /\ recleaned = <<>> /\ pcName = "off"
  /\ pipe = NoPipe

InitName ==
  /\ Idle
  /\ fname \in FileNames
  /\ cleaned = <<>> /\ recleaned = <<>> /\ pcName = "start"

CleanName ==
  /\ pcName = "start"
  /\ cleaned' = clean_sample_name(fname, domain_labels)
  /\ pcName' = "once"
  /\ UNCHANGED <<dir, metadata, phase, call, outcome, raised, domains, written,
                 trace, rankTables, fname, recleaned, pipe>>

CleanAgain ==
  /\ pcName = "once"
  /\ recleaned' = clean_sample_name(cleaned, domain_labels)
  /\ pcName' = "twice"
  /\ UNCHANGED <<dir, metadata, phase, call, outcome, raised, domains, written,
                 trace, rankTables, fname, cleaned, pipe>>

NextName == CleanName \/ CleanAgain

SpecName == InitName /\ [][NextName]_vars

\* C7: for every file name f, cleaning the cleaned name changes nothing:
\* clean_sample_name(clean_sample_name(f, V), V) = clean_sample_name(f, V).
C7_Idempotent == pcName = "twice" => recleaned = cleaned

(***************************************************************************)
(* Domain segmentation                                                     *)
(***************************************************************************)
\* report lines: percentage, reads covered, reads assigned, rank code, taxon, name
DBac == <<<<"1">>, <<"5">>, <<"5">>, <<"D">>, <<"2">>, <<"Bacteria">>>>
DsBac == <<<<"1">>, <<"5">>, <<"5">>, <<"D">>, <<"2">>, <<" ", "Bacteria">>>>
DVir == <<<<"1">>, <<"5">>, <<"5">>, <<"D">>, <<"3">>, <<"Viruses">>>>
SRow == <<<<"1">>, <<"5">>, <<"5">>, <<"S">>, <<"4">>, <<"E">>>>
SBad == <<<<"1">>, <<"5">>, <<"x">>, <<"S">>, <<"4">>, <<"E">>>>
Short == <<<<"1">>, <<"5">>, <<"5">>, <<"S">>>>
ShortD == <<<<"1">>, <<"5">>, <<"5">>, <<"D">>>>

SegLines == {DBac, DsBac, DVir, SRow, SBad, Short, ShortD}

KrakenReportFile == <<"A", US, "1", US, "kraken", US, "report.txt">>
OutputReportFile == <<"A", US, "1", US, "output", US, "report.txt">>

Returned(v) == [kind |-> "return", value |-> v]
Raised == [kind |-> "raise", value |-> None]

\* save_domain_data with a first statement that drops the header row
save_domain_data_NoHeader(domain, rows, d) ==
  LET domain_file_name ==
        ReplaceAll(domain, <<" ">>) \o <<US, "output", US, "report.txt">>
  IN [d EXCEPT !.dir = (domain_file_name :> Tail(rows)) @@ d.dir,
               !.written = IF \E i \in 1..Len(d.written) : d.written[i] = domain_file_name
                           THEN d.written ELSE Append(d.written, domain_file_name)]

\* d is the scan's view of the directory: [dir, written, ...]
save_domain_data(domain, rows, d) ==
  LET domain_file_name ==
        ReplaceAll(domain, <<" ">>) \o <<US, "output", US, "report.txt">>
  IN [d EXCEPT !.dir = (domain_file_name :> rows) @@ d.dir,
               !.written = IF \E i \in 1..Len(d.written) : d.written[i] = domain_file_name
                           THEN d.written ELSE Append(d.written, domain_file_name)]

\* one pass of the loop of process_output_report
OutputStep(st, line) ==
  LET columns == line
  IN IF Len(columns) < 6 THEN st
     ELSE IF columns[4] = <<"D">>
          THEN LET saved == IF Truthy(st.current_domain)
                            THEN save_domain_data(st.current_domain, st.current_rows, st)
                            ELSE st
               IN [saved EXCEPT !.current_domain = columns[6], !.current_rows = <<line>>]
          ELSE [st EXCEPT !.current_rows = Append(@, line)]

RECURSIVE OutputScan(_, _)
OutputScan(st, lines) ==
  IF lines = <<>> THEN st
  ELSE Bind(OutputStep(st, Head(lines)), LAMBDA next : OutputScan(next, Tail(lines)))

\* the result of process_output_report(output_report, output_dir) in directory d
process_output_report(output_report, d) ==
  IF output_report \notin DOMAIN d
  THEN [dir |-> d, written |-> <<>>, raised |-> TRUE, outcome |-> Returned(None)]
  ELSE LET st0 == [current_domain |-> None, current_rows |-> <<>>,
                   dir |-> d, written |-> <<>>]
           st == OutputScan(st0, d[output_report])
           last == IF Truthy(st.current_domain)
                   THEN save_domain_data(st.current_domain, st.current_rows, st)
                   ELSE st
       IN [dir |-> last.dir, written |-> last.written, raised |-> FALSE,
           outcome |-> Returned(None)]

\* pd.read_csv(path, sep="\t", header=None, names=columns): a row per line,
\* labelled by its position, short lines filled up with nan
PadNaN(line) == [k \in 1..6 |-> IF k <= Len(line) THEN line[k] ELSE NaN]

read_csv(lines) == [i \in 1..Len(lines) |-> [idx |-> i - 1, f |-> PadNaN(lines[i])]]

\* an assignment that keeps the value a key already has
DictPut_KeepFirst(dict, key, value) ==
  IF \E i \in 1..Len(dict) : dict[i][1] = key
  THEN dict
  ELSE Append(dict, <<key, value>>)

\* domains[key] = value of an insertion-ordered dict
DictPut(dict, key, value) ==
  IF \E i \in 1..Len(dict) : dict[i][1] = key
  THEN [i \in 1..Len(dict) |-> IF dict[i][1] = key THEN <<key, value>> ELSE dict[i]]
  ELSE Append(dict, <<key, value>>)

\* one pass of the loop of extract_domains_from_kraken_report
ExtractStep(st, row) ==
  IF row.f[4] = <<"D">>
  THEN [domains |-> IF Truthy(st.current_domain)
                    THEN DictPut(st.domains, st.current_domain, st.current_rows)
                    ELSE st.domains,
        current_domain |-> row.f[6],
        current_rows |-> <<row>>]
  ELSE [st EXCEPT !.current_rows = Append(@, row)]

RECURSIVE ExtractScan(_, _)
ExtractScan(st, rows) ==
  IF rows = <<>> THEN st
  ELSE Bind(ExtractStep(st, Head(rows)), LAMBDA next : ExtractScan(next, Tail(rows)))

\* the result of extract_domains_from_kraken_report(kraken_report_path) in directory d:
\* a missing or empty file makes read_csv raise, and nothing catches it
extract_domains_from_kraken_report(kraken_report_path, d) ==
  IF kraken_report_path \notin DOMAIN d \/ d[kraken_report_path] = <<>>
  THEN [domains |-> <<>>, raised |-> TRUE, outcome |-> Raised]
  ELSE LET df == read_csv(d[kraken_report_path])
           st0 == [domains |-> <<>>, current_domain |-> None, current_rows |-> <<>>]
           st == ExtractScan(st0, df)
       IN [domains |-> IF Truthy(st.current_domain)
                       THEN DictPut(st.domains, st.current_domain, st.current_rows)
                       ELSE st.domains,
           raised |-> FALSE, outcome |-> Returned(<<"domains">>)]

SegDirs ==
  {EmptyDir} \cup
  {(f :> c) : f \in {KrakenReportFile, OutputReportFile},
              c \in SeqsUpTo(SegLines, MaxSegLines)}

InitSeg ==
  /\ NameIdle
  /\ dir \in SegDirs
  /\ metadata = NoMetadata /\ phase = "idle" /\ call = NoCall
  /\ outcome = NoOutcome /\ raised = FALSE /\ domains = <<>> /\ written = <<>>
  /\ trace = NoTrace /\ rankTables = EmptyDir

\* a caller runs process_output_report on the sample's output report
CallProcessOutputReport ==
  /\ phase = "idle"
  /\ \E r \in {process_output_report(OutputReportFile, dir)} :
        /\ dir' = r.dir
        /\ written' = r.written
        /\ raised' = r.raised
        /\ outcome' = r.outcome
  /\ call' = [name |-> "process_output_report", path |-> OutputReportFile, before |-> dir]
  /\ phase' = "done"
  /\ UNCHANGED <<metadata, domains, trace, rankTables, fname, cleaned, recleaned, pcName, pipe>>

\* a caller runs extract_domains_from_kraken_report on the sample's kraken report
CallExtractDomains ==
  /\ phase = "idle"
  /\ \E r \in {extract_domains_from_kraken_report(KrakenReportFile, dir)} :
        /\ domains' = r.domains
        /\ raised' = r.raised
        /\ outcome' = r.outcome
  /\ call' = [name |-> "extract_domains_from_kraken_report", path |-> KrakenReportFile,
              before |-> dir]
  /\ phase' = "done"
  /\ UNCHANGED <<dir, metadata, written, trace, rankTables, fname, cleaned, recleaned,
                 pcName, pipe>>

(***************************************************************************)
(* Rank aggregation                                                        *)
(***************************************************************************)
Digits == <<"0", "1", "2", "3", "4", "5", "6", "7", "8", "9">>

DigitValue(c) == (CHOOSE k \in 1..10 : Digits[k] = c) - 1

\* int(s) succeeds: the model's fields hold digits and letters only (no sign,
\* blank or underscore, which int() would also take)
IsNumeric(s) == s # <<>> /\ \A i \in 1..Len(s) : \E k \in 1..10 : Digits[k] = s[i]

RECURSIVE IntOf(_)
IntOf(s) ==
  IF s = <<>> THEN 0
  ELSE 10 * IntOf(SubSeq(s, 1, Len(s) - 1)) + DigitValue(s[Len(s)])

\* str(n) of an int n >= 0
RECURSIVE ToStr(_)
ToStr(n) == IF n < 10 THEN <<Digits[n + 1]>> ELSE ToStr(n \div 10) \o <<Digits[(n % 10) + 1]>>

FixedColumns ==
  <<<<"Perc_frag_cover">>, <<"Nr_frag_cover">>, <<"Nr_frag_direct_at_taxon">>,
    <<"Rank_code">>, <<"NCBI_ID">>, <<"Scientific_name">>, <<"SampleID">>>>

SFamily == {<<"S">>, <<"S", "1">>, <<"S", "2">>, <<"S", "3">>}

MergedFile == <<"merged", US, "kraken.tsv">>
UnfilteredFile == <<"merged", US, "kraken", US, "all", US, "ranks", US, "unfiltered.tsv">>

Range(seq) == {seq[i] : i \in 1..Len(seq)}

\* parts[:-2]
AllButLast2(parts) == SubSeq(parts, 1, Len(parts) - 2)

\* '_'.join(file_name.split('_')[:-2])
extracted_part(file_name) == Join(AllButLast2(Split(file_name)))

\* the count filter with both ends open
InRange_Open(lo, n, hi) == lo < n /\ n < hi

\* read_count <= nr_frag_direct_at_taxon <= max_read_count
InRange(lo, n, hi) == lo <= n /\ n <= hi

\* extracted_part in metadata[sample_id_col].unique()
InFirstColumn(meta, sample) == \E r \in 1..Len(meta.rows) : meta.rows[r][1] = sample

\* metadata.loc[metadata[sample_id_col] == extracted_part].iloc[0].to_dict()
sample_metadata(meta, sample) ==
  LET r == CHOOSE r \in 1..Len(meta.rows) :
             /\ meta.rows[r][1] = sample
             /\ \A q \in 1..(r - 1) : meta.rows[q][1] # sample
  IN [c \in Range(meta.columns) |->
        meta.rows[r][CHOOSE j \in 1..Len(meta.columns) : meta.columns[j] = c]]

\* the dict literal stored for an accepted row: the seven fixed entries, then
\* **sample_metadata, whose entries replace fixed entries of the same name.
\* The count is kept as the text str() gives the parsed int.
Record(fields, sample, meta) ==
  LET fixed == <<fields[1], fields[2], ToStr(IntOf(fields[3])), fields[4],
                 fields[5], fields[6], sample>>
      md == sample_metadata(meta, sample)
  IN [c \in Range(FixedColumns) \cup DOMAIN md |->
        IF c \in DOMAIN md THEN md[c]
        ELSE fixed[CHOOSE j \in 1..7 : FixedColumns[j] = c]]

\* one line of one file, in the loop of aggregate_kraken_results (filtered) or of
\* generate_unfiltered_merged_tsv (not filtered); i is the line's position
AggRowStep(acc, file_name, i, fields, meta, rc, mx, filtered) ==
  IF acc.failed \/ Len(fields) < 6 THEN acc
  ELSE IF ~IsNumeric(fields[3]) THEN [acc EXCEPT !.failed = TRUE]
  ELSE LET n == IntOf(fields[3])
           sample == extracted_part(file_name)
           sampleandtaxonid == sample \o fields[5]
           seen == [acc EXCEPT !.visited = @ \cup {<<file_name, i>>}]
       IN IF /\ filtered => (fields[4] \in SFamily /\ InRange(rc, n, mx))
             /\ InFirstColumn(meta, sample)
          THEN [seen EXCEPT
                  !.results = DictPut(@, sampleandtaxonid, Record(fields, sample, meta)),
                  !.stored = @ \cup {<<file_name, i>>}]
          ELSE seen

RECURSIVE AggFileScan(_, _, _, _, _, _, _, _)
AggFileScan(acc, file_name, lines, i, meta, rc, mx, filtered) ==
  IF i > Len(lines) THEN acc
  ELSE Bind(AggRowStep(acc, file_name, i, lines[i], meta, rc, mx, filtered),
            LAMBDA next : AggFileScan(next, file_name, lines, i + 1, meta, rc, mx, filtered))

\* for file_name in os.listdir(kraken_dir): if file_name.endswith("_report.txt")
RECURSIVE AggDirScan(_, _, _, _, _, _, _)
AggDirScan(acc, d, listing, meta, rc, mx, filtered) ==
  IF listing = <<>> THEN acc
  ELSE LET file_name == Head(listing)
       IN Bind(IF EndsWith(file_name, ReportSuffix)
               THEN AggFileScan(acc, file_name, d[file_name], 1, meta, rc, mx, filtered)
               ELSE acc,
               LAMBDA next : AggDirScan(next, d, Tail(listing), meta, rc, mx, filtered))

\* the merged table: the header line, then a line per stored record
TableLines(results, meta) ==
  LET headers == FixedColumns \o Tail(meta.columns)
  IN <<headers>> \o
     [k \in 1..Len(results) |-> [j \in 1..Len(headers) |-> results[k][2][headers[j]]]]

\* the end of the call that writes the table even after a failure
AggFinish_WriteAnyway(acc, d, meta, path) ==
  IF ~meta.given THEN [dir |-> d, outcome |-> Returned(None)]
  ELSE [dir |-> (path :> TableLines(acc.results, meta)) @@ d,
        outcome |-> IF acc.failed THEN Returned(None) ELSE Returned(path)]

\* the end of the call: the table is written and its path returned, unless an
\* exception was raised, which is logged and turned into a returned None
AggFinish(acc, d, meta, path) ==
  IF acc.failed
  THEN [dir |-> d, outcome |-> Returned(None)]
  ELSE [dir |-> (path :> TableLines(acc.results, meta)) @@ d, outcome |-> Returned(path)]

AggStart(meta) ==
  [results |-> <<>>, failed |-> ~meta.given, visited |-> {}, stored |-> {}]

AggResult(acc, d, meta, path) ==
  LET fin == AggFinish(acc, d, meta, path)
  IN [dir |-> fin.dir, outcome |-> fin.outcome, raised |-> acc.failed,
      visited |-> acc.visited, stored |-> acc.stored]

AggCall(d, listing, meta, rc, mx, filtered, path) ==
  Bind(AggDirScan(AggStart(meta), d, listing, meta, rc, mx, filtered),
       LAMBDA acc : AggResult(acc, d, meta, path))

aggregate_kraken_results(d, listing, meta, rc, mx) ==
  AggCall(d, listing, meta, rc, mx, TRUE, MergedFile)

generate_unfiltered_merged_tsv(d, listing, meta) ==
  AggCall(d, listing, meta, 0, 0, FALSE, UnfilteredFile)

\* the (domain, rank) pairs of the two loops of process_all_ranks, in order
rank_iterations ==
  LET ranks == <<<<"D">>, <<"F">>, <<"K">>, <<"G">>, <<"S">>>>
      doms == <<<<"Bacteria">>, <<"Eukaryota">>, <<"Viruses">>>>
  IN [k \in 1..15 |-> <<doms[((k - 1) \div 5) + 1], ranks[((k - 1) % 5) + 1]>>]

\* the loops of process_all_ranks: every iteration calls aggregate_kraken_results
\* with the same arguments; tables[rank] is the merged table of rank's iteration
RankStep(st, rank, r) ==
  [dir |-> r.dir,
   tables |-> (rank :> IF r.outcome.value = None THEN <<>> ELSE r.dir[r.outcome.value])
              @@ st.tables,
   raised |-> st.raised \/ r.raised]

RECURSIVE RankLoop(_, _, _, _, _, _, _)
RankLoop(st, k, listing, meta, rc, mx, iterations) ==
  IF k > Len(iterations) THEN st
  ELSE Bind(aggregate_kraken_results(st.dir, listing, meta, rc, mx),
            LAMBDA r : Bind(RankStep(st, iterations[k][2], r),
                            LAMBDA next : RankLoop(next, k + 1, listing, meta, rc, mx,
                                                   iterations)))

process_all_ranks(d, listing, meta, rc, mx) ==
  Bind(generate_unfiltered_merged_tsv(d, listing, meta),
       LAMBDA u :
         Bind(RankLoop([dir |-> u.dir, tables |-> EmptyDir, raised |-> u.raised],
                       1, listing, meta, rc, mx, rank_iterations),
              LAMBDA st : [dir |-> st.dir, outcome |-> u.outcome,
                           raised |-> st.raised, tables |-> st.tables]))

(***************************************************************************)
(* Directories, metadata and calls                                         *)
(***************************************************************************)
\* counts around the thresholds, a rank outside the S family, a count that is
\* no integer, a line of four fields
AS2 == <<<<"1">>, <<"5">>, <<"2">>, <<"S">>, <<"2", "3">>, <<"E">>>>
AT3 == <<<<"2">>, <<"6">>, <<"3">>, <<"S">>, <<"2", "3">>, <<"E">>>>
AS3 == <<<<"1">>, <<"5">>, <<"3">>, <<"S", "1">>, <<"3">>, <<"F">>>>
AS1 == <<<<"1">>, <<"5">>, <<"1">>, <<"S">>, <<"3">>, <<"F">>>>
AS4 == <<<<"1">>, <<"5">>, <<"4">>, <<"S">>, <<"3">>, <<"F">>>>
AK2 == <<<<"1">>, <<"5">>, <<"2">>, <<"K">>, <<"2", "3">>, <<"G">>>>
ABad == <<<<"1">>, <<"5">>, <<"x">>, <<"K">>, <<"3">>, <<"G">>>>
AShort == <<<<"1">>, <<"5">>, <<"x">>, <<"S">>>>

AggLines == {AS2, AT3, AS3, AS1, AS4, AK2, ABad, AShort}

Thresholds == {<<2, 3>>, <<1, 4>>}

ReportA1 == KrakenReportFile
ReportA12 == <<"A", US, "1", "2", US, "kraken", US, "report.txt">>

SampleA1 == <<"A", US, "1">>
SampleA12 == <<"A", US, "1", "2">>

\* a merged table left by an earlier run that accepted nothing
StaleTable == <<FixedColumns>>

\* two reports of at most n lines in total, with or without an earlier merged table
AggDirs(n) ==
  UNION {{(ReportA1 :> c1) @@ (ReportA12 :> c2) @@ stale :
            c2 \in SeqsUpTo(AggLines, n - Len(c1)),
            stale \in {EmptyDir, (MergedFile :> StaleTable)}} :
         c1 \in SeqsUpTo(AggLines, n)}

\* the table of sample identifiers; a table that lacks sample A_12 and names A_1
\* twice; a table with a column named like a fixed column
MetaTables ==
  {[given |-> TRUE, columns |-> <<<<"Sample_ID">>>>,
    rows |-> <<<<SampleA1>>, <<SampleA12>>>>],
   [given |-> TRUE, columns |-> <<<<"Sample_ID">>, <<"Site">>>>,
    rows |-> <<<<SampleA1, <<"x">>>>, <<SampleA1, <<"y">>>>>>],
   [given |-> TRUE, columns |-> <<<<"Sample_ID">>, <<"NCBI_ID">>>>,
    rows |-> <<<<SampleA1, <<"9">>>>, <<SampleA12, <<"9">>>>>>]}

InitAgg ==
  /\ NameIdle
  /\ dir \in AggDirs(MaxAggLines)
  /\ metadata \in MetaTables \cup {NoMetadata}
  /\ phase = "idle" /\ call = NoCall
  /\ outcome = NoOutcome /\ raised = FALSE /\ domains = <<>> /\ written = <<>>
  /\ trace = NoTrace /\ rankTables = EmptyDir

Init == InitSeg \/ InitAgg

\* os.listdir(kraken_dir): the names, in any order
listdir(d) ==
  LET n == Cardinality(DOMAIN d)
  IN {s \in [1..n -> DOMAIN d] : \A i, j \in 1..n : i # j => s[i] # s[j]}

RECURSIVE ReportsIn(_)
ReportsIn(listing) ==
  IF listing = <<>> THEN <<>>
  ELSE IF EndsWith(Head(listing), ReportSuffix)
       THEN <<Head(listing)>> \o ReportsIn(Tail(listing))
       ELSE ReportsIn(Tail(listing))

CallAggregate ==
  /\ phase = "idle"
  /\ \E listing \in listdir(dir), th \in Thresholds :
       \E r \in {aggregate_kraken_results(dir, listing, metadata, th[1], th[2])} :
          /\ dir' = r.dir
          /\ outcome' = r.outcome
          /\ raised' = r.raised
          /\ trace' = [visited |-> r.visited, stored |-> r.stored]
          /\ call' = [name |-> "aggregate_kraken_results", order |-> ReportsIn(listing),
                      read_count |-> th[1], max_read_count |-> th[2], before |-> dir]
  /\ phase' = "done"
  /\ UNCHANGED <<metadata, domains, written, rankTables, fname, cleaned, recleaned, pcName, pipe>>

CallUnfiltered ==
  /\ phase = "idle"
  /\ \E listing \in listdir(dir) :
       \E r \in {generate_unfiltered_merged_tsv(dir, listing, metadata)} :
          /\ dir' = r.dir
          /\ outcome' = r.outcome
          /\ raised' = r.raised
          /\ trace' = [visited |-> r.visited, stored |-> r.stored]
          /\ call' = [name |-> "generate_unfiltered_merged_tsv",
                      order |-> ReportsIn(listing), before |-> dir]
  /\ phase' = "done"
  /\ UNCHANGED <<metadata, domains, written, rankTables, fname, cleaned, recleaned, pcName, pipe>>

CallProcessAllRanks ==
  /\ phase = "idle"
  /\ \E listing \in listdir(dir), th \in Thresholds :
       \E r \in {process_all_ranks(dir, listing, metadata, th[1], th[2])} :
          /\ dir' = r.dir
          /\ outcome' = r.outcome
          /\ raised' = r.raised
          /\ rankTables' = r.tables
          /\ call' = [name |-> "process_all_ranks", order |-> ReportsIn(listing),
                      read_count |-> th[1], max_read_count |-> th[2], before |-> dir]
  /\ phase' = "done"
  /\ UNCHANGED <<metadata, domains, written, trace, fname, cleaned, recleaned, pcName, pipe>>

Next ==
  \/ CallProcessOutputReport
  \/ CallExtractDomains
  \/ CallAggregate
  \/ CallUnfiltered

Spec == Init /\ [][Next]_vars

InitRanks ==
  /\ NameIdle
  /\ dir \in AggDirs(MaxRankLines)
  /\ metadata \in MetaTables \cup {NoMetadata}
  /\ phase = "idle" /\ call = NoCall
  /\ outcome = NoOutcome /\ raised = FALSE /\ domains = <<>> /\ written = <<>>
  /\ trace = NoTrace /\ rankTables = EmptyDir

NextRanks == CallProcessAllRanks

SpecRanks == InitRanks /\ [][NextRanks]_vars

(***************************************************************************)
(* Runs over a directory: segmentation of every report, the table of       *)
(* sample identifiers, aggregation                                         *)
(***************************************************************************)
MaxPipeLines == 2 \* lines in the report files of the directory at the start, in total
MaxPipeSteps == 3 \* runs made over the directory

KrakenSuffix == <<US, "kraken", US, "report.txt">>
OutputSuffix == <<US, "output", US, "report.txt">>
SampleIdsFile == <<"sample", US, "ids.csv">>

\* parts.count(tok)
Count(parts, tok) == Cardinality({i \in 1..Len(parts) : parts[i] = tok})

remove_first_kraken(filename) ==
  LET parts == Split(filename)
      kraken == <<"kraken">>
  IN IF Count(parts, kraken) > 1
     THEN LET index == CHOOSE i \in 1..Len(parts) :
                         parts[i] = kraken /\ \A j \in 1..(i - 1) : parts[j] # kraken
          IN Join(SubSeq(parts, 1, index - 1) \o SubSeq(parts, index + 1, Len(parts)))
     ELSE filename

\* line.strip() of a written line: the tabs that end it are gone, and the empty
\* fields they delimit with them
RECURSIVE StripTabs(_)
StripTabs(fields) ==
  IF fields # <<>> /\ fields[Len(fields)] = <<>>
  THEN StripTabs(SubSeq(fields, 1, Len(fields) - 1))
  ELSE fields

\* df.to_csv(output_path, sep="\t", index=False, header=False): a line per row,
\* nan written as the empty string; the line as a later reader splits it
to_csv(rows) ==
  [k \in 1..Len(rows) |->
     StripTabs([j \in 1..6 |-> IF rows[k].f[j] = NaN THEN <<>> ELSE rows[k].f[j]])]

\* one pass of the loop over domains.items() in process_kraken_reports;
\* nan.replace raises AttributeError
KrakenBlockStep(st, file_name, sample_name, domain, df) ==
  IF st.raised THEN st
  ELSE IF domain = NaN THEN [st EXCEPT !.raised = TRUE]
  ELSE LET output_filename ==
             remove_first_kraken(sample_name \o <<US>> \o ReplaceAll(domain, <<" ">>)
                                   \o KrakenSuffix)
       IN [st EXCEPT
             !.dir = (output_filename :> to_csv(df)) @@ @,
             !.emitted = @ \cup {[by |-> "process_kraken_reports", source |-> file_name,
                                  names |-> {domain}, path |-> output_filename]}]

RECURSIVE KrakenBlockLoop(_, _, _, _)
KrakenBlockLoop(st, file_name, sample_name, items) ==
  IF items = <<>> THEN st
  ELSE Bind(KrakenBlockStep(st, file_name, sample_name, Head(items)[1], Head(items)[2]),
            LAMBDA next : KrakenBlockLoop(next, file_name, sample_name, Tail(items)))

\* one pass of the loop over os.listdir(kraken_dir) in process_kraken_reports: an
\* exception of extract_domains_from_kraken_report ends the run
KrakenFileStep(st, file_name) ==
  IF st.raised \/ ~EndsWith(file_name, ReportSuffix) THEN st
  ELSE LET sample_name == clean_sample_name(file_name, domain_labels)
       IN Bind(extract_domains_from_kraken_report(file_name, st.dir),
               LAMBDA r : IF r.raised THEN [st EXCEPT !.raised = TRUE]
                          ELSE KrakenBlockLoop(st, file_name, sample_name, r.domains))

RECURSIVE KrakenFileLoop(_, _)
KrakenFileLoop(st, listing) ==
  IF listing = <<>> THEN st
  ELSE Bind(KrakenFileStep(st, Head(listing)),
            LAMBDA next : KrakenFileLoop(next, Tail(listing)))

process_kraken_reports(d, listing) ==
  Bind(KrakenFileLoop([dir |-> d, emitted |-> {}, raised |-> FALSE], listing),
       LAMBDA st : [dir |-> st.dir, emitted |-> st.emitted, raised |-> st.raised,
                    outcome |-> IF st.raised THEN Raised ELSE Returned(None)])

\* the domain names of the rows of 6 or more fields with rank code D
DomainNames(lines) ==
  {lines[i][6] : i \in {k \in 1..Len(lines) : Len(lines[k]) >= 6 /\ lines[k][4] = <<"D">>}}

\* one pass of the loop of process_output_reports: sample_name is computed and not
\* used; the blocks are written by process_output_report
OutputFileStep(st, file_name) ==
  IF ~EndsWith(file_name, OutputSuffix) THEN st
  ELSE LET sample_name == clean_sample_name(file_name, domain_labels)
       IN Bind(process_output_report(file_name, st.dir),
               LAMBDA r :
                 [dir |-> r.dir,
                  emitted |-> st.emitted \cup
                    {[by |-> "process_output_reports", source |-> file_name,
                      names |-> DomainNames(st.dir[file_name]), path |-> w] :
                       w \in Range(r.written)}])

RECURSIVE OutputFileLoop(_, _)
OutputFileLoop(st, listing) ==
  IF listing = <<>> THEN st
  ELSE Bind(OutputFileStep(st, Head(listing)),
            LAMBDA next : OutputFileLoop(next, Tail(listing)))

process_output_reports(d, listing) ==
  Bind(OutputFileLoop([dir |-> d, emitted |-> {}], listing),
       LAMBDA st : [dir |-> st.dir, emitted |-> st.emitted, raised |-> FALSE,
                    outcome |-> Returned(None)])

\* [fname.replace('_kraken_report.txt', '') for fname in os.listdir(kraken_dir)
\*  if fname.endswith('_kraken_report.txt')]
RECURSIVE sample_ids(_)
sample_ids(listing) ==
  IF listing = <<>> THEN <<>>
  ELSE IF EndsWith(Head(listing), KrakenSuffix)
       THEN <<ReplaceAll(Head(listing), KrakenSuffix)>> \o sample_ids(Tail(listing))
       ELSE sample_ids(Tail(listing))

\* sample_ids.csv: the header line, then a line per sample identifier
generate_sample_ids_csv(d, listing) ==
  LET ids == sample_ids(listing)
      lines == <<<<<<"Sample_ID">>>>>> \o [k \in 1..Len(ids) |-> <<ids[k]>>]
  IN [dir |-> (SampleIdsFile :> lines) @@ d, outcome |-> Returned(SampleIdsFile)]

\* pd.read_csv(metadata_file, sep=","): the first line names the columns
read_metadata(lines) == [given |-> TRUE, columns |-> Head(lines), rows |-> Tail(lines)]

PlainReportFile == <<"A", US, "1", US, "report.txt">>
OutputReportB == <<"B", US, "output", US, "report.txt">>

PipeFiles == {KrakenReportFile, PlainReportFile, OutputReportFile, OutputReportB}

PipeLines == {DBac, DsBac, DVir, AS2, ShortD}

\* one raw report, or two with at most n lines in total
PipeDirs(n) ==
  {(f :> c) : f \in PipeFiles, c \in SeqsUpTo(PipeLines, n)} \cup
  UNION {{(f[1] :> c1) @@ (f[2] :> c2) : c2 \in SeqsUpTo(PipeLines, n - Len(c1))} :
         f \in {g \in PipeFiles \X PipeFiles : g[1] # g[2]},
         c1 \in SeqsUpTo(PipeLines, n)}

InitPipe ==
  /\ fname = <<>> /\ cleaned = <<>> /\ recleaned = <<>> /\ pcName = "off"
  /\ dir \in PipeDirs(MaxPipeLines)
  /\ metadata = NoMetadata /\ phase = "idle" /\ call = NoCall
  /\ outcome = NoOutcome /\ raised = FALSE /\ domains = <<>> /\ written = <<>>
  /\ trace = NoTrace /\ rankTables = EmptyDir
  /\ pipe = NoPipe

RECURSIVE SetToSeq(_)
SetToSeq(S) ==
  IF S = {} THEN <<>>
  ELSE LET x == CHOOSE x \in S : TRUE IN <<x>> \o SetToSeq(S \ {x})

Reverse(seq) == [k \in 1..Len(seq) |-> seq[Len(seq) + 1 - k]]

\* os.listdir(kraken_dir) of a run: the names in one order, or in the opposite order
Listings(d) == {SetToSeq(DOMAIN d), Reverse(SetToSeq(DOMAIN d))}

\* the files written by process_kraken_reports so far
Partitioned == {e.path : e \in {x \in pipe.emitted : x.by = "process_kraken_reports"}}

RunProcessKrakenReports ==
  /\ pipe.steps < MaxPipeSteps
  /\ \E listing \in Listings(dir) :
       \E r \in {process_kraken_reports(dir, listing)} :
          /\ dir' = r.dir
          /\ outcome' = r.outcome
          /\ raised' = r.raised
          /\ pipe' = [emitted |-> pipe.emitted \cup r.emitted, steps |-> pipe.steps + 1]
          /\ call' = [name |-> "process_kraken_reports", order |-> ReportsIn(listing),
                      before |-> dir]
  /\ phase' = "done"
  /\ UNCHANGED <<metadata, domains, written, trace, rankTables, fname, cleaned, recleaned,
                 pcName>>

RunProcessOutputReports ==
  /\ pipe.steps < MaxPipeSteps
  /\ \E listing \in Listings(dir) :
       \E r \in {process_output_reports(dir, listing)} :
          /\ dir' = r.dir
          /\ outcome' = r.outcome
          /\ raised' = r.raised
          /\ pipe' = [emitted |-> pipe.emitted \cup r.emitted, steps |-> pipe.steps + 1]
          /\ call' = [name |-> "process_output_reports", order |-> ReportsIn(listing),
                      before |-> dir]
  /\ phase' = "done"
  /\ UNCHANGED <<metadata, domains, written, trace, rankTables, fname, cleaned, recleaned,
                 pcName>>

RunGenerateSampleIds ==
  /\ pipe.steps < MaxPipeSteps
  /\ \E listing \in Listings(dir) :
       \E r \in {generate_sample_ids_csv(dir, listing)} :
          /\ dir' = r.dir
          /\ outcome' = r.outcome
          /\ call' = [name |-> "generate_sample_ids_csv", order |-> ReportsIn(listing),
                      before |-> dir]
  /\ raised' = FALSE
  /\ pipe' = [pipe EXCEPT !.steps = @ + 1]
  /\ phase' = "done"
  /\ UNCHANGED <<metadata, domains, written, trace, rankTables, fname, cleaned, recleaned,
                 pcName>>

\* aggregate_kraken_results(kraken_dir, metadata_file=<the sample_ids.csv written>)
RunAggregate ==
  /\ pipe.steps < MaxPipeSteps
  /\ SampleIdsFile \in DOMAIN dir
  /\ \E listing \in Listings(dir), th \in Thresholds :
       \E meta \in {read_metadata(dir[SampleIdsFile])} :
         \E r \in {aggregate_kraken_results(dir, listing, meta, th[1], th[2])} :
            /\ dir' = r.dir
            /\ metadata' = meta
            /\ outcome' = r.outcome
            /\ raised' = r.raised
            /\ trace' = [visited |-> r.visited, stored |-> r.stored]
            /\ call' = [name |-> "aggregate_kraken_results", order |-> ReportsIn(listing),
                        read_count |-> th[1], max_read_count |-> th[2], before |-> dir,
                        partitioned |-> Partitioned]
  /\ pipe' = [pipe EXCEPT !.steps = @ + 1]
  /\ phase' = "done"
  /\ UNCHANGED <<domains, written, rankTables, fname, cleaned, recleaned, pcName>>

NextPipe ==
  \/ RunProcessKrakenReports
  \/ RunProcessOutputReports
  \/ RunGenerateSampleIds
  \/ RunAggregate

SpecPipe == InitPipe /\ [][NextPipe]_vars

(***************************************************************************)
(* What the claims speak of                                                *)
(***************************************************************************)
Done(name) == phase = "done" /\ call.name = name

\* the lines of the file the segmenter was given
Input == IF call.path \in DOMAIN call.before THEN call.before[call.path] ELSE <<>>

WellFormed(lines) == \A i \in 1..Len(lines) : Len(lines[i]) = 6

IsDRow(line) == Len(line) >= 4 /\ line[4] = <<"D">>

\* the rows from the first row with rank code D onward
FromFirstD(lines) ==
  IF \E i \in 1..Len(lines) : IsDRow(lines[i])
  THEN SubSeq(lines,
              CHOOSE i \in 1..Len(lines) :
                IsDRow(lines[i]) /\ \A j \in 1..(i - 1) : ~IsDRow(lines[j]),
              Len(lines))
  ELSE <<>>

\* no two D rows of the file give their blocks the same file name
DistinctBlockFiles(lines) ==
  \A i, j \in 1..Len(lines) :
    (i # j /\ IsDRow(lines[i]) /\ IsDRow(lines[j]))
      => ReplaceAll(lines[i][6], <<" ">>) # ReplaceAll(lines[j][6], <<" ">>)

\* no two D rows of the file have the same domain name
DistinctDomainNames(lines) ==
  \A i, j \in 1..Len(lines) :
    (i # j /\ IsDRow(lines[i]) /\ IsDRow(lines[j])) => lines[i][6] # lines[j][6]

\* the rows of the files written, file after file in the order of writing
WrittenRows == Flatten([k \in 1..Len(written) |-> dir[written[k]]])

\* the rows of the blocks of the returned mapping, block after block
MappedRows == Flatten([k \in 1..Len(domains) |-> domains[k][2]])

\* the DataFrame rows of the lines from the first D row onward
FromFirstDFrame(lines) ==
  LET n == Len(FromFirstD(lines))
  IN [k \in 1..n |-> read_csv(lines)[Len(lines) - n + k]]

PartitionOfOutput == WrittenRows = FromFirstD(Input)
PartitionOfMapping == MappedRows = FromFirstDFrame(Input)

\* C1 (as stated): whatever the well-formed rows, repeated domain names included,
\* the rows of the emitted blocks are the rows from the first D row onward, each
\* once and in their order.
C1_Partition ==
  /\ (Done("process_output_report") /\ ~raised /\ WellFormed(Input))
       => PartitionOfOutput
  /\ (Done("extract_domains_from_kraken_report") /\ ~raised /\ WellFormed(Input))
       => PartitionOfMapping

\* C1 (amended): when no two D rows give their blocks the same key (the domain name
\* in the returned mapping, the domain name without spaces in the files written),
\* the rows of the emitted blocks are the rows from the first D row onward, each
\* once and in their order.
C1_PartitionDistinctDomains ==
  /\ (Done("process_output_report") /\ ~raised /\ WellFormed(Input)
        /\ DistinctBlockFiles(Input))
       => PartitionOfOutput
  /\ (Done("extract_domains_from_kraken_report") /\ ~raised /\ WellFormed(Input)
        /\ DistinctDomainNames(Input))
       => PartitionOfMapping

\* a report with a row before its first D row and two domains was split into two files
C1_Witness ==
  /\ Done("process_output_report") /\ ~raised
  /\ Input = <<SRow, DBac, DVir>>
  /\ Len(written) = 2
  /\ WrittenRows = <<DBac, DVir>>

RECURSIVE SelectLong(_)
SelectLong(lines) ==
  IF lines = <<>> THEN <<>>
  ELSE IF Len(Head(lines)) < 6 THEN SelectLong(Tail(lines))
  ELSE <<Head(lines)>> \o SelectLong(Tail(lines))

\* the directory before the call, with the short lines taken out of the file read
WithoutShort == (call.path :> SelectLong(Input)) @@ call.before

\* the fields of the rows of each block of a mapping
BlockFields(dict) ==
  [k \in 1..Len(dict) |->
     <<dict[k][1], [m \in 1..Len(dict[k][2]) |-> dict[k][2][m].f]>>]

\* C4: a line of fewer than 6 fields is in no emitted domain block, of either
\* segmenter, and the other lines are processed as if that line were absent.
C4_ShortLinesSkipped ==
  /\ (Done("process_output_report") /\ ~raised) =>
       /\ \A k \in 1..Len(WrittenRows) : Len(WrittenRows[k]) >= 6
       /\ LET r == process_output_report(call.path, WithoutShort)
          IN /\ written = r.written
             /\ \A k \in 1..Len(written) : dir[written[k]] = r.dir[written[k]]
  /\ (Done("extract_domains_from_kraken_report") /\ ~raised) =>
       /\ \A k \in 1..Len(MappedRows) : Len(Input[MappedRows[k].idx + 1]) >= 6
       /\ BlockFields(domains) =
            BlockFields(extract_domains_from_kraken_report(call.path, WithoutShort).domains)

\* the file has a row of 6 or more fields whose reads_assigned is no integer
HasMalformedCount(lines) ==
  \E i \in 1..Len(lines) : Len(lines[i]) >= 6 /\ ~IsNumeric(lines[i][3])

\* C10: segmenting a file that holds a row of 6 or more fields with a non-numeric
\* reads_assigned fails the call, and no domain block is emitted.
C10_MalformedCountFailsSegmentation ==
  (/\ phase = "done"
   /\ call.name \in {"process_output_report", "extract_domains_from_kraken_report"}
   /\ HasMalformedCount(Input))
    => (raised /\ written = <<>> /\ domains = <<>>)

\* the report files of a directory
ReportFiles(d) == {f \in DOMAIN d : EndsWith(f, ReportSuffix)}

\* the rows of 6 or more fields of the report files: (file, position)
LongRows(d) ==
  UNION {{<<f, i>> : i \in {k \in 1..Len(d[f]) : Len(d[f][k]) >= 6}} : f \in ReportFiles(d)}

RowAt(x) == call.before[x[1]][x[2]]

\* the claim's condition on a row x = (file, position) for the call made
Qualifies(x) ==
  /\ RowAt(x)[4] \in {<<"S">>, <<"S", "1">>, <<"S", "2">>, <<"S", "3">>}
  /\ call.read_count <= IntOf(RowAt(x)[3])
  /\ IntOf(RowAt(x)[3]) <= call.max_read_count
  /\ \E r \in 1..Len(metadata.rows) : metadata.rows[r][1] = extracted_part(x[1])

\* C3: a row of 6 or more fields that the scan reaches is stored in the result
\* mapping exactly when its rank code is in the S family, its count lies in
\* [read_count, max_read_count], both ends included, and its file's sample
\* identifier is in the first metadata column; a scan that does not fail reaches
\* every such row.
C3_StoredIffQualifies ==
  Done("aggregate_kraken_results") =>
    /\ trace.visited \subseteq LongRows(call.before)
    /\ ~raised => trace.visited = LongRows(call.before)
    /\ \A x \in trace.visited : (x \in trace.stored) <=> Qualifies(x)

\* counts equal to read_count and to max_read_count were stored, counts one below
\* and one above were not (thresholds 2 and 3, rows AS2, AT3 of sample A_1, rows
\* AS1, AS4 of sample A_12)
C3_Witness ==
  /\ Done("aggregate_kraken_results") /\ ~raised
  /\ call.read_count = 2 /\ call.max_read_count = 3
  /\ \E x, y \in trace.stored : IntOf(RowAt(x)[3]) = 2 /\ IntOf(RowAt(y)[3]) = 3

\* a row of a sample without metadata was dropped and the call returned the table
C3_WitnessNoMatch ==
  /\ Done("aggregate_kraken_results") /\ ~raised
  /\ \E x \in trace.visited \ trace.stored :
       /\ RowAt(x)[4] = <<"S">>
       /\ call.read_count <= IntOf(RowAt(x)[3])
       /\ IntOf(RowAt(x)[3]) <= call.max_read_count
  /\ outcome = Returned(MergedFile)

\* the data rows of the merged table written by the call
TableRows == [k \in 1..(Len(dir[MergedFile]) - 1) |-> dir[MergedFile][k + 1]]

\* C2: no two data rows of the merged table have the same (SampleID, NCBI_ID).
C2_KeyUnique ==
  (Done("aggregate_kraken_results") /\ outcome = Returned(MergedFile)) =>
    \A i, j \in 1..Len(TableRows) :
      i # j => <<TableRows[i][7], TableRows[i][5]>> # <<TableRows[j][7], TableRows[j][5]>>

\* the key of row x: the sample identifier followed by the taxon identifier
KeyOf(x) == extracted_part(x[1]) \o RowAt(x)[5]

PositionIn(seq, e) == CHOOSE k \in 1..Len(seq) : seq[k] = e

\* row x is processed before row y
Before(x, y) ==
  \/ PositionIn(call.order, x[1]) < PositionIn(call.order, y[1])
  \/ x[1] = y[1] /\ x[2] < y[2]

\* the six classification fields of row x, the count as the integer it denotes
Classification(x) ==
  <<RowAt(x)[1], RowAt(x)[2], ToStr(IntOf(RowAt(x)[3])), RowAt(x)[4], RowAt(x)[5],
    RowAt(x)[6]>>

\* C5: the result is a mapping keyed by sample_id + taxon_id: for every key of an
\* accepted row the merged table has exactly one row, and its classification
\* fields are those of the accepted row of that key processed last.
C5_LastRowWins ==
  (Done("aggregate_kraken_results") /\ ~raised) =>
    LET accepted == {x \in LongRows(call.before) : Qualifies(x)}
    IN \A x \in accepted :
         (\A y \in accepted : KeyOf(y) = KeyOf(x) => (y = x \/ Before(y, x))) =>
           /\ Cardinality({k \in 1..Len(TableRows) :
                             TableRows[k][7] \o TableRows[k][5] = KeyOf(x)}) = 1
           /\ \A k \in 1..Len(TableRows) :
                TableRows[k][7] \o TableRows[k][5] = KeyOf(x)
                  => SubSeq(TableRows[k], 1, 6) = Classification(x)

\* a report file has a row of 6 or more fields whose third field is no integer
SomeMalformedCount(d) == \E x \in LongRows(d) : ~IsNumeric(d[x[1]][x[2]][3])

\* C8: when a row of 6 or more fields in a report file has a third field that is no
\* integer, the aggregation call leaves the directory as it was (no merged table
\* written or changed) and returns no table path.
C8_MalformedCountAborts ==
  (Done("aggregate_kraken_results") /\ SomeMalformedCount(call.before)) =>
    dir = call.before /\ outcome = Returned(None)

\* an earlier merged table exists; the first file read holds an accepted row and the
\* second a row of rank K whose count is no integer
C8_Witness ==
  /\ Done("aggregate_kraken_results")
  /\ MergedFile \in DOMAIN call.before
  /\ call.order = <<ReportA1, ReportA12>>
  /\ call.before[ReportA1] = <<AS2>> /\ call.before[ReportA12] = <<ABad>>
  /\ <<ReportA1, 1>> \in trace.stored
  /\ dir[MergedFile] = StaleTable
  /\ outcome = Returned(None)

\* C9: a failure raised inside aggregate_kraken_results,
\* generate_unfiltered_merged_tsv or process_output_report reaches the caller as a
\* failure.
C9_FailuresPropagate ==
  (/\ phase = "done"
   /\ call.name \in {"aggregate_kraken_results", "generate_unfiltered_merged_tsv",
                     "process_output_report"}
   /\ raised)
    => outcome.kind = "raise"

Family(R) == {R, R \o <<"1">>, R \o <<"2">>, R \o <<"3">>}

\* C6: the table produced in the iteration of rank R, for R in S, K, F, D, holds
\* only rows whose rank code is in R's family.
C6_RankFamily ==
  Done("process_all_ranks") =>
    \A R \in {<<"S">>, <<"K">>, <<"F">>, <<"D">>} :
      \A k \in 2..Len(rankTables[R]) : rankTables[R][k][4] \in Family(R)

\* the name with the first occurrence of the token taken out, when the token
\* occurs more than once among the "_"-separated tokens of the name
DedupeToken(name, token) ==
  LET parts == Split(name)
      at == {i \in 1..Len(parts) : parts[i] = token}
  IN IF Cardinality(at) > 1
     THEN LET first == CHOOSE i \in at : \A j \in at : i <= j
          IN Join([k \in 1..(Len(parts) - 1) |-> IF k < first THEN parts[k] ELSE parts[k + 1]])
     ELSE name

\* the report type of the run that emitted block e
ReportType(e) == IF e.by = "process_kraken_reports" THEN <<"kraken">> ELSE <<"output">>

\* the cleaned sample identity of the source, the domain name without blanks, the
\* suffix of the report type, joined by "_", the repeated token removed once
ExpectedName(source, domain, type) ==
  DedupeToken(clean_sample_name(source, domain_labels) \o <<US>>
                \o SelectSeq(domain, LAMBDA c : c # " ") \o <<US>> \o type \o ReportSuffix,
              type)

NamedFromSource(e) == \E n \in e.names : e.path = ExpectedName(e.source, n, ReportType(e))

\* C11: every domain block emitted for a source file, by process_kraken_reports and
\* by process_output_reports, is written to the file named from the source's cleaned
\* sample identity, the domain name without whitespace and the suffix of the report
\* type, the repeated token removed once; and blocks of sources with different
\* cleaned sample identities are never written to the same path.
C11_NamedFromSource ==
  /\ \A e \in pipe.emitted : NamedFromSource(e)
  /\ \A e1, e2 \in pipe.emitted :
       clean_sample_name(e1.source, domain_labels) # clean_sample_name(e2.source, domain_labels)
         => e1.path # e2.path

\* C12: whatever runs of process_kraken_reports, generate_sample_ids_csv and
\* aggregate_kraken_results were made over the directory, no row stored by an
\* aggregation run (as a new record or over an earlier one) was read from a file
\* that process_kraken_reports had written.
C12_OnlyRawReports ==
  Done("aggregate_kraken_results") => \A x \in trace.stored : x[1] \notin call.partitioned

\* the positions of the D-coded rows
DPositions(rows) == {i \in 1..Len(rows) : rows[i][4] = <<"D">>}

\* the position of the last D-coded row named n
LastNamed(rows, n) ==
  CHOOSE i \in DPositions(rows) :
    rows[i][6] = n /\ \A j \in DPositions(rows) : rows[j][6] = n => j <= i

\* the last position of the span that starts at the D-coded row at position i
SpanEnd(rows, i) ==
  IF \E j \in DPositions(rows) : j > i
  THEN (CHOOSE j \in DPositions(rows) :
          j > i /\ \A q \in DPositions(rows) : q > i => j <= q) - 1
  ELSE Len(rows)

\* block is rows[from..to]: the same positions, the same fields
IsSpan(block, rows, from, to) ==
  /\ Len(block) = to - from + 1
  /\ \A m \in 1..Len(block) :
       block[m].idx + 1 = from + m - 1 /\ block[m].f = rows[from + m - 1]

\* C13: for rows of six fields, the mapping returned by
\* extract_domains_from_kraken_report has one entry for a name n exactly when a
\* D-coded row is named n, and the entry is the span of rows from the last D-coded
\* row named n up to the row before the next D-coded row, or to the end of input.
C13_LastSpanPerName ==
  (Done("extract_domains_from_kraken_report") /\ ~raised /\ WellFormed(Input)) =>
    /\ {domains[k][1] : k \in 1..Len(domains)} = {Input[i][6] : i \in DPositions(Input)}
    /\ \A k1, k2 \in 1..Len(domains) : domains[k1][1] = domains[k2][1] => k1 = k2
    /\ \A k \in 1..Len(domains) :
         LET from == LastNamed(Input, domains[k][1])
         IN IsSpan(domains[k][2], Input, from, SpanEnd(Input, from))

\* the name Viruses is on the first and on the third row: its entry is the third
\* row alone, and the rows of the first span are in no entry
C13_Witness ==
  /\ Done("extract_domains_from_kraken_report") /\ ~raised
  /\ Input = <<DVir, SRow, DVir>>
  /\ Len(domains) = 1
  /\ domains[1][1] = <<"Viruses">>
  /\ Len(domains[1][2]) = 1 /\ domains[1][2][1].idx = 2

\* C14: in every data row of the merged table the seven fixed columns hold the
\* classification fields of an accepted report row and the sample identifier of
\* its file, whatever the metadata table holds.
C14_FixedColumnsFromRow ==
  (Done("aggregate_kraken_results") /\ outcome = Returned(MergedFile)) =>
    \A k \in 1..Len(TableRows) :
      \E x \in trace.stored :
        SubSeq(TableRows[k], 1, 7) = Classification(x) \o <<extracted_part(x[1])>>

====
